---- MODULE Spec2Model ----
(***************************************************************************)
(* A model of pytari2600's top-level object (atari2600.py: Atari), of the  *)
(* control state of its interactive debugger (debugger.py: Debugger), and  *)
(* of the devices the two files drive: scheduler, cartridge, memory map    *)
(* TIA collision latches and motion registers, and the RIOT timer.         *)
(*                                                                         *)
(*   Spec           Atari.power_on: the five main loops, _handle_debugger, *)
(*                  the debugger's pause / single-step protocol and the    *)
(*                  save / restore keys of the replay loop.                *)
(*   FairNormalClockSpec  power_on(stop_clock > 0) in normal mode, with    *)
(*                  the fairness of a single-threaded loop that keeps      *)
(*                  running.                                               *)
(*   FairNormalQuitSpec   power_on(0) in normal mode, the same fairness.   *)
(*   SpecDebugger   the Debugger's methods called in any order.            *)
(*   SpecDebuggerView  the same with renders, a cartridge inserted.        *)
(*   SpecStackView  the full memory view for every stack pointer.          *)
(*   SpecCartridge  Atari.insert_cartridge called with any tag.            *)
(*   SpecSaveState  get_save_state / set_save_state between instructions.  *)
(*   SpecScheduler  the scheduler step with the WSYNC stall.               *)
(*   SpecWsync      the WSYNC stall from any position of a scanline.       *)
(*   SpecBankSwitch reads and writes of a bank-switched cartridge.         *)
(*   SpecMemoryMap  the address decode of the memory map.                  *)
(*   SpecCollisions the collision latches of the TIA.                      *)
(*   SpecHmove      the HM registers, HMCLR and HMOVE of the TIA.          *)
(*   SpecTimer      the interval timer of the RIOT.                        *)
(***************************************************************************)
EXTENDS Integers, Sequences, FiniteSets, TLC

VARIABLES
    pc,        \* position of power_on: "init", "loop", "done", "error"
    args,      \* the arguments power_on was called with
    debugger,  \* Debugger fields
    inputs,    \* Input fields the two files read or write
    clocks,    \* Clock fields
    pc_state,  \* CPU registers and RIOT RAM, as one abstract value
               \* (SpecStackView: the stack pointer S)
    memory,    \* Memory fields (the installed cartridge, the length of
               \* its rom)
    replay,    \* contents of the replay file on disk
    last,      \* observation of the latest loop iteration / method call
    calls,     \* log of the calls power_on made before its loop
               \* (SpecCartridge: log of insert_cartridge calls)
    stella,    \* TIA fields (cx: collision bits latched, x: pixels rendered,
               \* hm: HM registers, pos: object positions, hmoves: HMOVE strobes)
    riot,      \* RIOT fields (the timer; state: RAM and ports)
    cpu,       \* CPU core fields the scheduler reads (wait_for_tia)
    cart,      \* the cartridge the CPU reads: variant and current bank
    bus        \* the latest access decoded by the memory map

vars ==
    <<pc, args, debugger, inputs, clocks, pc_state, memory, replay, last, calls,
      stella, riot, cpu, cart, bus>>

\* the devices no method of Atari or Debugger modelled here writes
hardware == <<cpu, cart, bus>>

(***************************************************************************)
(* Bounds                                                                  *)
(***************************************************************************)
MaxStop == 4        \* largest stop_clock passed to power_on
MaxCycles == 2      \* largest number of CPU cycles one core.step() takes
MaxInserts == 2     \* insert_cartridge calls in one run
MaxClock == MaxStop + 3 * MaxCycles   \* cap of clocks.system_clock
MaxLines == 2       \* scanlines the scheduler runs for
MaxPixels == 2      \* visible pixels the TIA renders
MaxHmoves == 2      \* HMOVE strobes
MaxElapsed == 4100  \* CPU cycles the RIOT timer is followed for

\* the values the abstract register / RAM contents take
RegValues == {0, 1}

\* color clocks one core.step() adds to system_clock (3 per CPU cycle)
StepClocks == {3 * c : c \in 1..MaxCycles}

(***************************************************************************)
(* Debugger: control state                                                 *)
(***************************************************************************)
VIEW_MAIN == 0
VIEW_MEMORY == 1
VIEW_SPRITES == 2
VIEW_TIA == 3

\* Python's None where the model holds a number
WINDOW_HEIGHT == 800
LINE_HEIGHT == 16

None == 0 - 1

NoKey == "None"
Keys == {"F11", "TAB", "p", "d", "UP", "DOWN", "PAGEUP", "PAGEDOWN",
         "HOME", "END", "other"}

\* the keys pressed while power_on runs: those that act on the pause
\* state or the view, and one scroll key
LoopKeys == {"F11", "TAB", "p", "DOWN", NoKey}

Min(x, y) == IF x < y THEN x ELSE y
Max(x, y) == IF x > y THEN x ELSE y

\* Debugger.__init__
DebuggerInit ==
    [active |-> FALSE, paused |-> FALSE, _step_requested |-> FALSE,
     view_mode |-> VIEW_MAIN, memory_scroll |-> 0, max_scroll |-> 0,
     _prev_cpu_state |-> None, _initialized |-> FALSE]

\* Debugger._init_display: sets _initialized and returns True on both paths
_init_display(a) == [a EXCEPT !.debugger._initialized = TRUE]

_init_display_result(a) == TRUE

\* Debugger._close_window
_close_window(a) == [a EXCEPT !.debugger._initialized = FALSE]

\* Debugger._capture_state: registers and RAM copied for change detection
_capture_state(a) == [a EXCEPT !.debugger._prev_cpu_state = a.pc_state]

\* Debugger.step
step(a) ==
    IF ~a.debugger.active THEN a
    ELSE IF ~a.debugger.paused THEN _capture_state(a) ELSE a

\* toggle that closes the window but leaves the pause flag set
toggle_keep_paused(a) ==
    LET act == ~a.debugger.active
        a1 == [a EXCEPT !.debugger.active = act,
                        !.inputs.debugger_active = act]
    IN  IF act
        THEN _capture_state([_init_display(a1) EXCEPT !.debugger.paused = TRUE])
        ELSE _close_window([a1 EXCEPT !.debugger._step_requested = FALSE])

\* toggle with the reset of the step request on close left out
toggle_keep_step(a) ==
    LET act == ~a.debugger.active
        a1 == [a EXCEPT !.debugger.active = act,
                        !.inputs.debugger_active = act]
    IN  IF act
        THEN _capture_state([_init_display(a1) EXCEPT !.debugger.paused = TRUE])
        ELSE _close_window([a1 EXCEPT !.debugger.paused = FALSE])

\* Debugger.toggle
toggle(a) ==
    LET act == ~a.debugger.active
        a1 == [a EXCEPT !.debugger.active = act,
                        !.inputs.debugger_active = act]
    IN  IF act
        THEN LET a2 == _init_display(a1)
             IN  IF _init_display_result(a1)
                 THEN _capture_state([a2 EXCEPT !.debugger.paused = TRUE])
                 ELSE a2
        ELSE _close_window([a1 EXCEPT !.debugger.paused = FALSE,
                                      !.debugger._step_requested = FALSE])

\* toggle_pause that leaves a pending step request alone
toggle_pause_keep_step(a) ==
    [a EXCEPT !.debugger.paused = ~a.debugger.paused]

\* Debugger.toggle_pause
toggle_pause(a) ==
    [a EXCEPT !.debugger.paused = ~a.debugger.paused,
              !.debugger._step_requested = FALSE]

\* Debugger.step_one
step_one(a) ==
    IF a.debugger.paused
    THEN [a EXCEPT !.debugger._step_requested = TRUE]
    ELSE a

\* Debugger.consume_step: the value it returns ...
consume_step_result(a) == a.debugger._step_requested

\* consume_step that reports the request and leaves it pending
consume_step_keep(a) == a

\* ... and the state it leaves
consume_step(a) ==
    IF a.debugger._step_requested
    THEN [a EXCEPT !.debugger._step_requested = FALSE]
    ELSE a

\* handle_key whose Tab keeps the scroll position
handle_key_tab_keeps_scroll(a, key) ==
    LET d == a.debugger
    IN  CASE key = "F11" -> step_one(a)
          [] key = "TAB" -> [a EXCEPT !.debugger.view_mode = (d.view_mode + 1) % 4]
          [] key = "p" -> toggle_pause(a)
          [] key = "d" -> a
          [] key = "UP" ->
                [a EXCEPT !.debugger.memory_scroll = Max(0, d.memory_scroll - 1)]
          [] key = "DOWN" ->
                [a EXCEPT !.debugger.memory_scroll = Min(d.max_scroll, d.memory_scroll + 1)]
          [] key = "PAGEUP" ->
                [a EXCEPT !.debugger.memory_scroll = Max(0, d.memory_scroll - 20)]
          [] key = "PAGEDOWN" ->
                [a EXCEPT !.debugger.memory_scroll = Min(d.max_scroll, d.memory_scroll + 20)]
          [] key = "HOME" -> [a EXCEPT !.debugger.memory_scroll = 0]
          [] key = "END" -> [a EXCEPT !.debugger.memory_scroll = d.max_scroll]
          [] OTHER -> a

\* handle_key whose Page Down is not clamped to max_scroll
handle_key_page_unclamped(a, key) ==
    LET d == a.debugger
    IN  CASE key = "F11" -> step_one(a)
          [] key = "TAB" -> [a EXCEPT !.debugger.view_mode = (d.view_mode + 1) % 4,
                                      !.debugger.memory_scroll = 0]
          [] key = "p" -> toggle_pause(a)
          [] key = "d" -> a
          [] key = "UP" ->
                [a EXCEPT !.debugger.memory_scroll = Max(0, d.memory_scroll - 1)]
          [] key = "DOWN" ->
                [a EXCEPT !.debugger.memory_scroll = Min(d.max_scroll, d.memory_scroll + 1)]
          [] key = "PAGEUP" ->
                [a EXCEPT !.debugger.memory_scroll = Max(0, d.memory_scroll - 20)]
          [] key = "PAGEDOWN" ->
                [a EXCEPT !.debugger.memory_scroll = d.memory_scroll + 20]
          [] key = "HOME" -> [a EXCEPT !.debugger.memory_scroll = 0]
          [] key = "END" -> [a EXCEPT !.debugger.memory_scroll = d.max_scroll]
          [] OTHER -> a

\* Debugger.handle_key (dump_memory only writes a text file)
handle_key(a, key) ==
    LET d == a.debugger
    IN  CASE key = "F11" -> step_one(a)
          [] key = "TAB" -> [a EXCEPT !.debugger.view_mode = (d.view_mode + 1) % 4,
                                      !.debugger.memory_scroll = 0]
          [] key = "p" -> toggle_pause(a)
          [] key = "d" -> a
          [] key = "UP" ->
                [a EXCEPT !.debugger.memory_scroll = Max(0, d.memory_scroll - 1)]
          [] key = "DOWN" ->
                [a EXCEPT !.debugger.memory_scroll = Min(d.max_scroll, d.memory_scroll + 1)]
          [] key = "PAGEUP" ->
                [a EXCEPT !.debugger.memory_scroll = Max(0, d.memory_scroll - 20)]
          [] key = "PAGEDOWN" ->
                [a EXCEPT !.debugger.memory_scroll = Min(d.max_scroll, d.memory_scroll + 20)]
          [] key = "HOME" -> [a EXCEPT !.debugger.memory_scroll = 0]
          [] key = "END" -> [a EXCEPT !.debugger.memory_scroll = d.max_scroll]
          [] OTHER -> a

(***************************************************************************)
(* Atari: save states, the CPU step and the debugger hook of the main loop *)
(***************************************************************************)
\* the replay file before anything was written to it
\* no object positions held
NoPositions == [P0 |-> 0 - 1]

\* no byte read
NoByte == [from |-> "none", bank |-> 0 - 1, offset |-> 0 - 1]

\* no save state held
NoState == [clocks |-> [system_clock |-> 0 - 1]]

Absent == [exists |-> FALSE, state |-> NoState]

\* what one loop iteration (or one method call) did
ObsInit ==
    [ran |-> FALSE,            \* a loop body ran
     quit_at_test |-> 0,       \* inputs.get_quit() at the loop test
     stepped |-> 0,            \* core.step() calls
     clock_at_step |-> -1,     \* system_clock when core.step() began
     paused_at_step |-> FALSE, \* debugger.paused when core.step() began
     consumed |-> FALSE,       \* consume_step() returned True
     modified |-> FALSE,       \* the single step changed registers or RAM
     changed |-> "none",       \* what the render reported as changed
     marked |-> {},            \* addresses the stack view highlighted
     read |-> {},              \* RAM indices the stack view read
     f11 |-> FALSE,            \* F11 handled while active and paused
     displayed |-> 0,          \* driver_update_display() calls of the loop
     restored |-> FALSE,       \* set_save_state() executed
     save_key |-> FALSE,       \* the save-state key was down
     raised |-> "None",        \* exception a called method raised
     after_wsync |-> FALSE,    \* the instruction before wrote WSYNC
     wsync |-> FALSE,          \* the instruction wrote WSYNC
     stalled |-> FALSE,        \* the scheduler resolved a WSYNC stall
     stall_from |-> 0 - 1,     \* system_clock when the stall began
     wait_at_step |-> FALSE,   \* cpu.wait_for_tia when core.step() began
     prev_op |-> "none",       \* the operation before this one
     value |-> 0 - 1,          \* the byte a register read returned
     pos_before |-> NoPositions, \* object positions before the operation
     hotspot |-> 0 - 1,        \* the hotspot address read latest
     addr |-> 0 - 1,           \* the address of the access
     byte |-> NoByte,          \* what the read returned
     before |-> NoState,       \* get_save_state() before the call
     op |-> "none",            \* Debugger method called (SpecDebugger)
     pre |-> DebuggerInit]     \* Debugger fields before that call

\* event polling: a quit request raised by the user reaches inputs.quit
\* when events are polled, by TIA writes during core.step() or by
\* stella.driver_update_display()
poll(a, q) == IF q THEN [a EXCEPT !.inputs.quit = 1] ELSE a

\* core.step(): one instruction, system_clock advanced by d color clocks,
\* registers and RAM left as v
core_step(a, d, v, q) ==
    poll([a EXCEPT !.clocks.system_clock = @ + d,
                   !.pc_state = v,
                   !.obs.stepped = @ + 1,
                   !.obs.clock_at_step = a.clocks.system_clock,
                   !.obs.paused_at_step = a.debugger.paused], q)

\* Debugger._is_changed, and the same test on _prev_memory: the snapshot
\* against the current registers and RAM
_is_changed(a, current_val) ==
    IF a.debugger._prev_cpu_state = None
    THEN FALSE
    ELSE a.debugger._prev_cpu_state # current_val

\* _draw_full_memory_view, lines 655-657: the lines one page shows
lines_per_page == (WINDOW_HEIGHT - 80) \div LINE_HEIGHT

\* range(0, 128, 16): the first RAM index of each line of 16 bytes
LineOffsets == {16 * n : n \in 0..7}

\* the RAM indices the stack lines read: ram[i + j] for j in range(16)
StackReads == {i + j : i \in LineOffsets, j \in 0..15}

\* the index in memory_lines of the stack line that begins at RAM index i:
\* a header, eight RAM lines, a spacer and a header come first
stack_line_index(i) == 11 + i \div 16

\* the length of memory_lines for a ROM of n bytes: the RAM and stack
\* sections with their headers and spacers, and the ROM section if any
memory_lines_len(n) == 20 + (IF n > 0 THEN 1 + (n + 15) \div 16 ELSE 0)

\* the lines drawn: range(start_line, min(start_line + lines_per_page, len))
visible(a, idx) ==
    /\ idx >= a.debugger.memory_scroll
    /\ idx < Min(a.debugger.memory_scroll + lines_per_page,
                 memory_lines_len(a.memory.rom))

\* the stack pointer mark of the stack line that begins at RAM index i
sp_pos(sp, i) == IF sp >= i /\ sp < i + 16 THEN sp ELSE 0 - 1

\* Debugger._draw_full_memory_view: max_scroll recomputed; the stack lines
\* read ram[i + j] and highlight the byte whose offset equals sp_pos
_draw_full_memory_view(a) ==
    LET sp == a.pc_state
    IN  [a EXCEPT
           !.debugger.max_scroll =
               Max(0, memory_lines_len(a.memory.rom) - lines_per_page + 5),
           !.obs.read = StackReads,
           !.obs.marked =
               UNION {{256 + i + j : j \in {k \in 0..15 :
                                         (256 + i) - 256 + k = sp_pos(sp, i)}} :
                      i \in {l \in LineOffsets :
                                /\ sp_pos(sp, l) >= 0
                                /\ visible(a, stack_line_index(l))}}]

\* Debugger.render: the view of view_mode is drawn; the views colour what
\* _is_changed reports
render(a) ==
    IF ~a.debugger.active \/ ~a.debugger._initialized
    THEN a
    ELSE LET a1 == [a EXCEPT !.obs.changed =
                       IF _is_changed(a, a.pc_state) THEN "yes" ELSE "no"]
         IN  IF a.debugger.view_mode = VIEW_MEMORY
             THEN _draw_full_memory_view(a1)
             ELSE a1

\* stella.driver_update_display(): the debugger attached by set_debugger is
\* rendered and the events are polled
driver_update_display(a, q) ==
    poll(render([a EXCEPT !.obs.displayed = @ + 1]), q)

\* <component>.get_save_state(): a pure-data snapshot of the component
component_get_save_state(a, k) ==
    CASE k = "clocks" -> a.clocks
      [] k = "memory" -> a.memory.state
      [] k = "core" -> a.pc_state
      [] k = "inputs" -> a.inputs.state
      [] k = "stella" -> a.stella
      [] k = "riot" -> a.riot

\* <component>.set_save_state(v): the component takes the snapshot's values
component_set_save_state(a, k, v) ==
    CASE k = "clocks" -> [a EXCEPT !.clocks = v]
      [] k = "memory" -> [a EXCEPT !.memory.state = v]
      [] k = "core" -> [a EXCEPT !.pc_state = v]
      [] k = "inputs" -> [a EXCEPT !.inputs.state = v]
      [] k = "stella" -> [a EXCEPT !.stella = v]
      [] k = "riot" -> [a EXCEPT !.riot = v]

\* Atari.get_save_state: one entry per component
get_save_state(a) ==
    [clocks |-> component_get_save_state(a, "clocks"),
     memory |-> component_get_save_state(a, "memory"),
     core |-> component_get_save_state(a, "core"),
     inputs |-> component_get_save_state(a, "inputs"),
     stella |-> component_get_save_state(a, "stella"),
     riot |-> component_get_save_state(a, "riot")]

\* the entries Atari.set_save_state reads, in the order of its statements
RestoreOrder == <<"clocks", "memory", "core", "inputs", "stella", "riot">>

\* the inputs entry is not read
RestoreOrderNoInputs == <<"clocks", "memory", "core", "stella", "riot">>

\* Atari.set_save_state from its i-th statement on: state[k] of a missing
\* entry raises KeyError, after the statements before it have run
RECURSIVE restore_from(_, _, _, _)
restore_from(a, state, order, i) ==
    IF i > Len(order)
    THEN a
    ELSE IF order[i] \notin DOMAIN state
         THEN [a EXCEPT !.status = "error", !.obs.raised = "KeyError"]
         ELSE restore_from(component_set_save_state(a, order[i], state[order[i]]),
                           state, order, i + 1)

\* the statement restoring the inputs left out
set_save_state_no_inputs(a, state) ==
    restore_from([a EXCEPT !.obs.restored = TRUE], state, RestoreOrderNoInputs, 1)

\* Atari.set_save_state
set_save_state(a, state) ==
    restore_from([a EXCEPT !.obs.restored = TRUE], state, RestoreOrder, 1)

\* the display not updated while paused
_handle_debugger_no_display(a, in) ==
    LET a1 == IF in.toggle THEN toggle(a) ELSE a
    IN  IF a1.debugger.active
        THEN LET a2 == IF in.key # NoKey
                       THEN [handle_key(a1, in.key) EXCEPT !.obs.f11 =
                                in.key = "F11" /\ a1.debugger.paused]
                       ELSE a1
             IN  step(a2)
        ELSE a1

\* Atari._handle_debugger
_handle_debugger(a, in) ==
    LET a1 == IF in.toggle THEN toggle(a) ELSE a
    IN  IF a1.debugger.active
        THEN LET a2 == IF in.key # NoKey
                       THEN [handle_key(a1, in.key) EXCEPT !.obs.f11 =
                                in.key = "F11" /\ a1.debugger.paused]
                       ELSE a1
                 a3 == step(a2)
             IN  IF a3.debugger.paused
                 THEN driver_update_display(a3, in.quit)
                 ELSE a3
        ELSE a1

\* the pause test inverted
run_or_step_inverted(a, in) ==
    IF a.debugger.paused
    THEN core_step(a, in.d, in.v, in.quit)
    ELSE IF consume_step_result(a)
         THEN _capture_state(
                  core_step([consume_step(a) EXCEPT
                                !.obs.consumed = TRUE,
                                !.obs.modified = in.v # a.pc_state],
                            in.d, in.v, in.quit))
         ELSE a

\* power_on, lines 132-136 (and 112-116, 141-145): run, or single-step
run_or_step(a, in) ==
    IF ~a.debugger.paused
    THEN core_step(a, in.d, in.v, in.quit)
    ELSE IF consume_step_result(a)
         THEN _capture_state(
                  core_step([consume_step(a) EXCEPT
                                !.obs.consumed = TRUE,
                                !.obs.modified = in.v # a.pc_state],
                            in.d, in.v, in.quit))
         ELSE a

\* the restore key tested before the save key
save_restore_restore_first(a, in) ==
    IF in.restore_key
    THEN IF ~a.replay.exists
         THEN [a EXCEPT !.status = "error"]
         ELSE set_save_state(a, a.replay.state)
    ELSE IF in.save_key
         THEN [a EXCEPT !.replay = [exists |-> TRUE, state |-> get_save_state(a)]]
         ELSE a

\* power_on, lines 118-126: save / restore keys of the replay loop
save_restore(a, in) ==
    IF in.save_key
    THEN [a EXCEPT !.replay = [exists |-> TRUE, state |-> get_save_state(a)]]
    ELSE IF in.restore_key
         THEN IF ~a.replay.exists
              THEN [a EXCEPT !.status = "error"]
              ELSE set_save_state(a, a.replay.state)
         ELSE a

\* the bodies of the five loops of power_on
debug_quit_body(a, in) == _handle_debugger(core_step(a, in.d, in.v, in.quit), in)

debug_clock_body(a, in) == core_step(a, in.d, in.v, in.quit)

replay_body(a, in) ==
    save_restore(run_or_step(_handle_debugger(
                     [a EXCEPT !.obs.save_key = in.save_key], in), in), in)

normal_quit_body(a, in) == run_or_step(_handle_debugger(a, in), in)

normal_clock_body(a, in) == run_or_step(_handle_debugger(a, in), in)

\* which loop power_on enters
Loop(g) ==
    IF g.debug
    THEN IF g.stop_clock = 0 THEN "debug_quit" ELSE "debug_clock"
    ELSE IF g.replay_file
         THEN "replay"
         ELSE IF g.stop_clock = 0 THEN "normal_quit" ELSE "normal_clock"

\* the test of each while loop
loop_test(l, a, g) ==
    CASE l = "debug_quit" -> a.inputs.quit = 0
      [] l = "debug_clock" -> a.clocks.system_clock < g.stop_clock
      [] l = "replay" -> a.inputs.quit = 0
      [] l = "normal_quit" -> a.inputs.quit = 0
      [] l = "normal_clock" -> a.clocks.system_clock < g.stop_clock

\* no cartridge read yet, no access decoded yet
NoCart == [config |-> "None"]

NoAccess == [addr |-> 0 - 1, rw |-> "none", routed |-> FALSE, devices |-> {},
             error |-> "None"]

(***************************************************************************)
(* Spec: power_on                                                          *)
(***************************************************************************)
ArgsInit == [stop_clock |-> 0, debug |-> FALSE, replay_file |-> FALSE]

\* Atari.__init__: the components as constructed
InputsInit == [quit |-> 0, debugger_active |-> FALSE, state |-> 0]

MemoryInit == [cartridge |-> "None", rom |-> 0, state |-> 0]

StellaInit ==
    [state |-> 0, cx |-> {}, x |-> 0,
     hm |-> [P0 |-> 0, P1 |-> 0, M0 |-> 0, M1 |-> 0, BL |-> 0],
     pos |-> [P0 |-> 0, P1 |-> 0, M0 |-> 0, M1 |-> 0, BL |-> 0],
     hmoves |-> 0]

RiotInit ==
    [state |-> 0, timer_value |-> 0, interval |-> 0, set_time |-> 0 - 1,
     expiration_time |-> 0 - 1, timint |-> FALSE]

HardwareInit ==
    /\ cpu = [wait_for_tia |-> FALSE]
    /\ cart = NoCart
    /\ bus = NoAccess

Init ==
    /\ pc = "init"
    /\ args = ArgsInit
    /\ debugger = DebuggerInit
    /\ inputs = InputsInit
    /\ clocks = [system_clock |-> 0]
    /\ pc_state = 0
    /\ memory = MemoryInit
    /\ replay = Absent
    /\ last = ObsInit
    /\ calls = <<>>
    /\ stella = StellaInit
    /\ riot = RiotInit
    /\ HardwareInit

\* the object graph the methods work on, at the start of an iteration
Atari ==
    [debugger |-> debugger, inputs |-> inputs, clocks |-> clocks,
     pc_state |-> pc_state, memory |-> memory, stella |-> stella,
     riot |-> riot, cpu |-> cpu,
     replay |-> replay, status |-> "ok",
     obs |-> [ObsInit EXCEPT !.ran = TRUE, !.quit_at_test = inputs.quit]]

Commit(r) ==
    /\ r.clocks.system_clock <= MaxClock
    /\ debugger' = r.debugger
    /\ inputs' = r.inputs
    /\ clocks' = r.clocks
    /\ pc_state' = r.pc_state
    /\ memory' = r.memory
    /\ stella' = r.stella
    /\ riot' = r.riot
    /\ replay' = r.replay
    /\ last' = r.obs
    /\ pc' = IF r.status = "ok" THEN "loop" ELSE "error"
    /\ UNCHANGED <<args, calls, hardware>>

\* power_on that enters the loop without core.reset()
PowerOnWithoutReset(stop_clock, debug, replay_file) ==
    /\ pc = "init"
    /\ args' = [stop_clock |-> stop_clock, debug |-> debug,
                replay_file |-> replay_file]
    /\ calls' = calls \o <<"memory.set_riot", "memory.set_stella",
                           "stella.set_debugger">>
    /\ pc' = "loop"
    /\ UNCHANGED <<debugger, inputs, clocks, pc_state, memory, replay, last,
                   stella, riot, hardware>>

\* power_on up to the loop: devices attached, core.reset(); calls lists
\* the calls made
PowerOnWith(stop_clock, debug, replay_file) ==
    /\ pc = "init"
    /\ args' = [stop_clock |-> stop_clock, debug |-> debug,
                replay_file |-> replay_file]
    /\ calls' = calls \o <<"memory.set_riot", "memory.set_stella",
                           "stella.set_debugger", "core.reset">>
    /\ pc' = "loop"
    /\ UNCHANGED <<debugger, inputs, clocks, pc_state, memory, replay, last,
                   stella, riot, hardware>>

\* the replay loop never reads stop_clock: zero and one non-zero value
\* stand for all
PowerOn ==
    \E sc \in 0..MaxStop, dbg \in BOOLEAN, rf \in BOOLEAN :
        /\ (rf /\ ~dbg) => sc \in {0, MaxStop}
        /\ PowerOnWith(sc, dbg, rf)

In(t, k, d, v, q, s, r) ==
    [toggle |-> t, key |-> k, d |-> d, v |-> v, quit |-> q,
     save_key |-> s, restore_key |-> r]

DebugQuitLoop ==
    /\ pc = "loop" /\ Loop(args) = "debug_quit"
    /\ loop_test("debug_quit", Atari, args)
    /\ \E t \in BOOLEAN, k \in LoopKeys, d \in StepClocks, v \in RegValues, q \in BOOLEAN :
          Commit(debug_quit_body(Atari, In(t, k, d, v, q, FALSE, FALSE)))

DebugClockLoop ==
    /\ pc = "loop" /\ Loop(args) = "debug_clock"
    /\ loop_test("debug_clock", Atari, args)
    /\ \E d \in StepClocks, v \in RegValues, q \in BOOLEAN :
          Commit(debug_clock_body(Atari, In(FALSE, NoKey, d, v, q, FALSE, FALSE)))

ReplayLoop ==
    /\ pc = "loop" /\ Loop(args) = "replay"
    /\ loop_test("replay", Atari, args)
    /\ \E t \in BOOLEAN, k \in LoopKeys, d \in StepClocks, v \in RegValues, q \in BOOLEAN,
          s \in BOOLEAN, r \in BOOLEAN :
          Commit(replay_body(Atari, In(t, k, d, v, q, s, r)))

NormalQuitLoop ==
    /\ pc = "loop" /\ Loop(args) = "normal_quit"
    /\ loop_test("normal_quit", Atari, args)
    /\ \E t \in BOOLEAN, k \in LoopKeys, d \in StepClocks, v \in RegValues, q \in BOOLEAN :
          Commit(normal_quit_body(Atari, In(t, k, d, v, q, FALSE, FALSE)))

NormalClockLoop ==
    /\ pc = "loop" /\ Loop(args) = "normal_clock"
    /\ loop_test("normal_clock", Atari, args)
    /\ \E t \in BOOLEAN, k \in LoopKeys, d \in StepClocks, v \in RegValues, q \in BOOLEAN :
          Commit(normal_clock_body(Atari, In(t, k, d, v, q, FALSE, FALSE)))

\* the loop test fails: "Atari finished"
Finish ==
    /\ pc = "loop"
    /\ ~loop_test(Loop(args), Atari, args)
    /\ pc' = "done"
    /\ last' = [ObsInit EXCEPT !.quit_at_test = inputs.quit]
    /\ UNCHANGED <<args, debugger, inputs, clocks, pc_state, memory, replay, calls,
                   stella, riot, hardware>>

Next ==
    \/ PowerOn
    \/ DebugQuitLoop
    \/ DebugClockLoop
    \/ ReplayLoop
    \/ NormalQuitLoop
    \/ NormalClockLoop
    \/ Finish

Spec == Init /\ [][Next]_vars

\* power_on(stop_clock > 0) in normal mode: the clock-capped normal loop
PowerOnNormalClock == \E sc \in 1..MaxStop : PowerOnWith(sc, FALSE, FALSE)

NextNormalClock ==
    \/ PowerOnNormalClock
    \/ NormalClockLoop
    \/ Finish

\* a single-threaded loop that is not stopped from outside keeps running
FairNormalClockSpec ==
    Init /\ [][NextNormalClock]_vars /\ WF_vars(NextNormalClock)

\* power_on(0) in normal mode: the normal loop that runs until quit
PowerOnNormalQuit == PowerOnWith(0, FALSE, FALSE)

NextNormalQuit ==
    \/ PowerOnNormalQuit
    \/ NormalQuitLoop
    \/ Finish

FairNormalQuitSpec ==
    Init /\ [][NextNormalQuit]_vars /\ WF_vars(NextNormalQuit)

(***************************************************************************)
(* SpecDebugger: the Debugger's methods, called in any order               *)
(***************************************************************************)
InitDebugger ==
    /\ pc = "api"
    /\ args = ArgsInit
    /\ debugger = DebuggerInit
    /\ inputs = InputsInit
    /\ clocks = [system_clock |-> 0]
    /\ pc_state = 0
    /\ memory = MemoryInit
    /\ replay = Absent
    /\ last = ObsInit
    /\ calls = <<>>
    /\ stella = StellaInit
    /\ riot = RiotInit
    /\ HardwareInit

\* the object graph before a method call named op
Called(op) ==
    [debugger |-> debugger, inputs |-> inputs, clocks |-> clocks,
     pc_state |-> pc_state, memory |-> memory, stella |-> stella,
     riot |-> riot, cpu |-> cpu,
     replay |-> replay, status |-> "ok",
     obs |-> [ObsInit EXCEPT !.op = op, !.pre = debugger]]

Return(r) ==
    /\ debugger' = r.debugger
    /\ inputs' = r.inputs
    /\ last' = r.obs
    /\ UNCHANGED <<pc, args, clocks, pc_state, memory, replay, calls,
                   stella, riot, hardware>>

CallToggle == pc = "api" /\ Return(toggle(Called("toggle")))

CallTogglePause == pc = "api" /\ Return(toggle_pause(Called("toggle_pause")))

CallStepOne == pc = "api" /\ Return(step_one(Called("step_one")))

CallConsumeStep ==
    /\ pc = "api"
    /\ LET a == Called("consume_step")
       IN  Return([consume_step(a) EXCEPT !.obs.consumed = consume_step_result(a)])

CallHandleKey ==
    /\ pc = "api"
    /\ \E k \in Keys : Return(handle_key(Called(k), k))

NextDebugger ==
    \/ CallToggle
    \/ CallTogglePause
    \/ CallStepOne
    \/ CallConsumeStep
    \/ CallHandleKey

SpecDebugger == InitDebugger /\ [][NextDebugger]_vars

(***************************************************************************)
(* SpecDebuggerView: the Debugger's methods and its render, a cartridge    *)
(* inserted                                                                *)
(***************************************************************************)
\* the lengths of the cartridge's rom: none, 512 bytes, 2K
RomSizes == {0, 512, 2048}

InitDebuggerView ==
    /\ pc = "api"
    /\ args = ArgsInit
    /\ debugger = DebuggerInit
    /\ inputs = InputsInit
    /\ clocks = [system_clock |-> 0]
    /\ pc_state = 0
    /\ \E n \in RomSizes : memory = [MemoryInit EXCEPT !.rom = n]
    /\ replay = Absent
    /\ last = ObsInit
    /\ calls = <<>>
    /\ stella = StellaInit
    /\ riot = RiotInit
    /\ HardwareInit

CallRender == pc = "api" /\ Return(render(Called("render")))

NextDebuggerView ==
    \/ NextDebugger
    \/ CallRender

SpecDebuggerView == InitDebuggerView /\ [][NextDebuggerView]_vars

(***************************************************************************)
(* SpecCartridge: Atari.insert_cartridge                                   *)
(***************************************************************************)
\* the tags of the cartridge table
SupportedTags ==
    {"single_bank", "default", "f8", "super", "f6", "f4", "cbs", "fa",
     "e", "pb", "fe", "mnet"}

\* tags no row of the table names
OtherTags == {"3f", ""}

Tags == SupportedTags \cup OtherTags

\* an argument a cartridge constructor is not given
NA == 0 - 1

Cart(class, max_banks, bank_size, hot_swap, ram_size) ==
    [class |-> class, max_banks |-> max_banks, bank_size |-> bank_size,
     hot_swap |-> hot_swap, ram_size |-> ram_size]

\* insert_cartridge, lines 26-47: the cartridge constructed for a tag
\* (4096 = 0x1000, 4089 = 0xFF9, 4090 = 0xFFA, 4091 = 0xFFB,
\*  128 = 0x080, 256 = 0x100)
new_cart(cart_type) ==
    CASE cart_type = "pb" -> Cart("PBCartridge", NA, NA, NA, NA)
      [] cart_type = "mnet" -> Cart("MNetworkCartridge", NA, NA, NA, NA)
      [] cart_type = "fe" -> Cart("GenericCartridge", 8, 4096, 4091, 128)
      [] cart_type = "e" -> Cart("FECartridge", 2, 4096, NA, NA)
      [] cart_type = "cbs" -> Cart("GenericCartridge", 3, 4096, 4090, 256)
      [] cart_type = "super" -> Cart("GenericCartridge", 4, 4096, 4089, 128)
      [] cart_type = "f4" -> Cart("GenericCartridge", 8, 4096, 4091, 0)
      [] cart_type = "single_bank" -> Cart("SingleBankCartridge", NA, 4096, NA, NA)
      [] cart_type = "default" -> Cart("GenericCartridge", 8, 4096, 4089, 0)
      [] OTHER -> Cart("GenericCartridge", 4, 4096, 4089, 0)

\* Atari.insert_cartridge: no path raises; the cartridge is always installed
insert_cartridge(m, cart_type) ==
    [memory |-> [m EXCEPT !.cartridge = new_cart(cart_type)],
     raised |-> "None",
     set_cartridge |-> TRUE]

InitCartridge ==
    /\ pc = "insert"
    /\ args = ArgsInit
    /\ debugger = DebuggerInit
    /\ inputs = InputsInit
    /\ clocks = [system_clock |-> 0]
    /\ pc_state = 0
    /\ memory = MemoryInit
    /\ replay = Absent
    /\ last = ObsInit
    /\ calls = <<>>
    /\ stella = StellaInit
    /\ riot = RiotInit
    /\ HardwareInit

InsertCartridge ==
    /\ pc = "insert"
    /\ Len(calls) < MaxInserts
    /\ \E t \in Tags :
          LET r == insert_cartridge(memory, t)
          IN  /\ memory' = r.memory
              /\ calls' = Append(calls, [cart_type |-> t, raised |-> r.raised,
                                         set_cartridge |-> r.set_cartridge,
                                         before |-> memory.cartridge,
                                         cart |-> r.memory.cartridge])
    /\ UNCHANGED <<pc, args, debugger, inputs, clocks, pc_state, replay, last,
                   stella, riot, hardware>>

NextCartridge == InsertCartridge

SpecCartridge == InitCartridge /\ [][NextCartridge]_vars

(***************************************************************************)
(* Properties of power_on (Spec, FairNormalClockSpec)                      *)
(***************************************************************************)
DebuggerLoops == {"replay", "normal_quit", "normal_clock"}

\* C1: in every run mode (debug, replay, normal; stop_clock zero or not),
\* once inputs.get_quit() is non-zero at a loop test the main loop exits at
\* that test: no loop body, and so no core.step(), runs after it.
C1_QuitExitsEveryLoop == last.ran => last.quit_at_test = 0

\* C2: in every run mode, when stop_clock > 0 no core.step() begins with
\* clocks.system_clock >= stop_clock.
C2_CapHonouredEveryLoop ==
    (args.stop_clock > 0 /\ last.stepped > 0)
        => last.clock_at_step < args.stop_clock

\* C3 as stated: in the normal loop with stop_clock > 0 power_on reaches
\* "Atari finished" for every sequence of debugger keys, pauses included.
C3_AlwaysTerminates ==
    (pc = "loop" /\ Loop(args) = "normal_clock") ~> (pc = "done")

\* C3 as amended: in the normal loop with stop_clock > 0 power_on reaches
\* "Atari finished" unless the debugger stays paused for ever from some
\* iteration on.
C3_TerminatesUnlessPaused ==
    <>[](Loop(args) # "normal_clock" \/ pc = "done" \/ debugger.paused)

\* the normal loop ran to its end although the debugger had been opened
\* (which pauses) and the emulation resumed with P
C3_Witness ==
    /\ pc = "done"
    /\ Loop(args) = "normal_clock"
    /\ debugger.active /\ ~debugger.paused
    /\ clocks.system_clock >= args.stop_clock

\* C4: paused means no CPU execution: in every loop that calls
\* _handle_debugger, core.step() runs with debugger.paused true only when
\* consume_step() returned True in that iteration.
C4_PausedStepsOnlyOnRequest ==
    (last.stepped > 0 /\ last.paused_at_step) => last.consumed

\* C5: in the normal and replay loops an F11 handled while the debugger is
\* active and paused causes exactly one core.step() in the same iteration,
\* consume_step clears the request, and an iteration without F11 that ends
\* paused executes no step.
C5_SingleStepExactlyOnce ==
    (last.ran /\ Loop(args) \in DebuggerLoops) =>
        /\ last.f11 => (last.stepped = 1 /\ last.consumed)
        /\ ~debugger._step_requested
        /\ (~last.f11 /\ debugger.paused) => last.stepped = 0

\* an F11 was handled while paused and its single step ran
C5_Witness ==
    /\ Loop(args) \in DebuggerLoops
    /\ last.f11 /\ last.stepped = 1 /\ last.consumed
    /\ debugger.paused

(***************************************************************************)
(* Properties of the Debugger's methods (SpecDebugger)                     *)
(***************************************************************************)
\* C6: toggle flips active; after a toggle that opens the debugger paused
\* is True, after one that closes it paused is False and no step request
\* is pending, whatever the state before the call.
C6_Toggle ==
    last.op = "toggle" =>
        /\ debugger.active = ~last.pre.active
        /\ debugger.active => debugger.paused
        /\ ~debugger.active => (~debugger.paused /\ ~debugger._step_requested)

\* the debugger was closed by toggle while a step request was pending
C6_Witness ==
    /\ last.op = "toggle"
    /\ ~debugger.active
    /\ last.pre.paused /\ last.pre._step_requested

(***************************************************************************)
(* Properties of insert_cartridge (SpecCartridge)                          *)
(***************************************************************************)
\* cartridge.py: what the classes make of their constructor arguments
BankCount(c) == IF c.class = "SingleBankCartridge" THEN 1 ELSE c.max_banks

TopHotspot(c) == c.hot_swap

RamSize(c) ==
    IF c.ram_size # NA THEN c.ram_size
    ELSE IF c.class = "MNetworkCartridge" THEN 1024 ELSE 0

Call(i) == calls[i]

\* C7: insert_cartridge with a tag outside the supported set fails with
\* UnknownCartridgeType and installs no cartridge.
C7_UnknownTagIsFatal ==
    \A i \in 1..Len(calls) :
        Call(i).cart_type \notin SupportedTags =>
            /\ Call(i).raised = "UnknownCartridgeType"
            /\ ~Call(i).set_cartridge
            /\ (i = Len(calls) => memory.cartridge = Call(i).before)

\* the tags the cartridge table gives as two names of one variant
AliasPairs == {<<"default", "f8">>, <<"super", "f6">>, <<"cbs", "fa">>}

\* C8: both tags of an alias pair construct the same cartridge
\* configuration (class, bank count, bank size, top hotspot, RAM size).
C8_AliasesBuildSameCartridge ==
    \A i, j \in 1..Len(calls) :
        <<Call(i).cart_type, Call(j).cart_type>> \in AliasPairs =>
            Call(i).cart = Call(j).cart

\* the cartridge table: banks and top hotspot ($FF9 = 4089, $FFA = 4090,
\* $FFB = 4091)
CartTable ==
    [single_bank |-> [banks |-> 1, hot |-> NA],
     default |-> [banks |-> 2, hot |-> 4089],
     super |-> [banks |-> 4, hot |-> 4089],
     f4 |-> [banks |-> 8, hot |-> 4091],
     cbs |-> [banks |-> 3, hot |-> 4090]]

\* C9: for single_bank, default, super, f4 and cbs the constructed
\* cartridge has the bank count, the 4 KB bank size and the top hotspot
\* of the cartridge table.
C9_TableBanksAndHotspots ==
    \A i \in 1..Len(calls) :
        Call(i).cart_type \in DOMAIN CartTable =>
            /\ BankCount(Call(i).cart) = CartTable[Call(i).cart_type].banks
            /\ Call(i).cart.bank_size = 4096
            /\ TopHotspot(Call(i).cart) = CartTable[Call(i).cart_type].hot

PureRomTags == {"single_bank", "default", "super", "f4", "e", "pb", "fe"}

\* C10: every tag but cbs and mnet constructs a pure-ROM cartridge (RAM
\* size 0); cbs constructs one with 256 bytes of RAM.
C10_OnlyCbsAndMnetHaveRam ==
    \A i \in 1..Len(calls) :
        /\ Call(i).cart_type \in PureRomTags => RamSize(Call(i).cart) = 0
        /\ Call(i).cart_type = "cbs" => RamSize(Call(i).cart) = 256

\* C11: insert_cartridge builds for the tag fe the 2-bank cartridge of the
\* FE scheme (class FECartridge, switched by the accesses to $01FE/$01FF)
\* and for the tag e a 2-bank cartridge of 4 KB banks, not of the FE class,
\* whose hotspot pair $FF8/$FF9 ends at 4089; the two tags are not
\* interchanged.
C11_FeAndENotInterchanged ==
    \A i \in 1..Len(calls) :
        /\ Call(i).cart_type = "fe" =>
              /\ Call(i).cart.class = "FECartridge"
              /\ BankCount(Call(i).cart) = 2
        /\ Call(i).cart_type = "e" =>
              /\ Call(i).cart.class # "FECartridge"
              /\ BankCount(Call(i).cart) = 2
              /\ Call(i).cart.bank_size = 4096
              /\ TopHotspot(Call(i).cart) = 4089

(***************************************************************************)
(* SpecSaveState: get_save_state / set_save_state between instructions     *)
(***************************************************************************)
\* the components whose state an instruction's side effects change besides
\* the clock and the CPU: bank switches, input latches, TIA and RIOT writes
Devices == {"memory", "inputs", "stella", "riot"}

device_activity(a, w) ==
    [a EXCEPT !.memory.state = w["memory"], !.inputs.state = w["inputs"],
              !.stella.state = w["stella"], !.riot.state = w["riot"]]

\* a state record with the entry k missing
Without(state, k) == [e \in DOMAIN state \ {k} |-> state[e]]

InitSaveState ==
    /\ pc = "between"
    /\ args = ArgsInit
    /\ debugger = DebuggerInit
    /\ inputs = InputsInit
    /\ clocks = [system_clock |-> 0]
    /\ pc_state = 0
    /\ memory = MemoryInit
    /\ replay = Absent
    /\ last = ObsInit
    /\ calls = <<>>
    /\ stella = StellaInit
    /\ riot = RiotInit
    /\ HardwareInit

\* the object graph between two instructions, before a call named op
Between(op) ==
    [Called(op) EXCEPT !.obs.before = get_save_state(Called(op))]

\* the call returns, or its exception ends the program
Outcome(r) ==
    /\ r.clocks.system_clock <= MaxClock
    /\ debugger' = r.debugger
    /\ inputs' = r.inputs
    /\ clocks' = r.clocks
    /\ pc_state' = r.pc_state
    /\ memory' = r.memory
    /\ stella' = r.stella
    /\ riot' = r.riot
    /\ replay' = r.replay
    /\ last' = r.obs
    /\ pc' = IF r.status = "ok" THEN "between" ELSE "error"
    /\ UNCHANGED <<args, calls, hardware>>

\* one instruction and what it does to the devices
Instruction ==
    /\ pc = "between"
    /\ \E d \in StepClocks, v \in RegValues, w \in [Devices -> RegValues] :
          LET a == core_step(Called("core.step"), d, v, FALSE)
          IN  Outcome([device_activity(a, w) EXCEPT !.obs = Called("core.step").obs])

\* state = self.get_save_state(), kept as the replay file keeps it
CallGetSaveState ==
    /\ pc = "between"
    /\ LET a == Between("get_save_state")
       IN  Outcome([a EXCEPT !.replay = [exists |-> TRUE, state |-> get_save_state(a)]])

\* self.set_save_state(state) with a state kept earlier
CallSetSaveState ==
    /\ pc = "between"
    /\ replay.exists
    /\ Outcome(set_save_state(Between("set_save_state"), replay.state))

\* self.set_save_state(state) with a state record that lacks an entry
CallSetSaveStateInconsistent ==
    /\ pc = "between"
    /\ replay.exists
    /\ \E k \in DOMAIN replay.state :
          Outcome(set_save_state(Between("set_save_state"), Without(replay.state, k)))

\* self.set_save_state(self.get_save_state())
RoundTrip ==
    /\ pc = "between"
    /\ LET a == Between("round_trip")
       IN  Outcome(set_save_state(a, get_save_state(a)))

NextSaveState ==
    \/ Instruction
    \/ CallGetSaveState
    \/ CallSetSaveState
    \/ CallSetSaveStateInconsistent
    \/ RoundTrip

SpecSaveState == InitSaveState /\ [][NextSaveState]_vars

C13_RestoreAtomicOnFailure ==
    (last.op = "set_save_state" /\ last.raised # "None") =>
        get_save_state(Atari) = last.before

\* C14: from one iteration of the power_on loop to the next system_clock
\* decreases only in an iteration that executed set_save_state; an
\* iteration that pauses, single-steps, toggles the debugger or has the
\* save-state key down does not rewind the clock.
C14_ClockRewindsOnlyOnRestore ==
    [][clocks'.system_clock < clocks.system_clock
           => (last'.restored /\ ~last'.save_key)]_vars

\* a restore ran in an iteration that had stepped, and left the clock no
\* later than it was when the step began
C14_Witness ==
    /\ pc = "loop"
    /\ last.restored /\ last.stepped > 0
    /\ clocks.system_clock <= last.clock_at_step

(***************************************************************************)
(* SpecScheduler: the scheduler step, instruction after instruction        *)
(* SpecWsync:     the WSYNC stall as a function of the TIA position        *)
(***************************************************************************)
\* master color clocks of one scanline, and of one CPU cycle
ScanlineClocks == 228

ClocksPerCycle == 3

\* the cycle cost an instruction reports
InstructionCycles == 2..7

\* horizontal clock H of the TIA, 0..227, at master clock c
H(c) == c % ScanlineClocks

\* Clock: CPU cycles read from the counter
cpu_cycles(c) == c \div ClocksPerCycle

\* at H = 0 the scanline start is taken as reached
next_line_stay(c) ==
    IF H(c) = 0 THEN c ELSE c + (ScanlineClocks - H(c))

\* the master clock of the next H == 0 after c
next_line(c) == c + (ScanlineClocks - H(c))

\* the clock advanced, the flag left set
wsync_stall_keep_flag(a) ==
    IF a.cpu.wait_for_tia
    THEN [a EXCEPT !.clocks.system_clock = next_line(@),
                   !.obs.stalled = TRUE,
                   !.obs.stall_from = a.clocks.system_clock]
    ELSE a

\* scheduler step 1: if wait_for_tia, advance TIA and clock to the next
\* H == 0 and clear the flag
wsync_stall(a) ==
    IF a.cpu.wait_for_tia
    THEN [a EXCEPT !.clocks.system_clock = next_line(@),
                   !.cpu.wait_for_tia = FALSE,
                   !.obs.stalled = TRUE,
                   !.obs.stall_from = a.clocks.system_clock]
    ELSE a

\* the clock advanced by the cycles, not by three clocks a cycle
scheduler_step_by_cycles(a, cycles, wsync, v) ==
    LET a1 == wsync_stall(a)
        a2 == core_step([a1 EXCEPT !.obs.wait_at_step = a1.cpu.wait_for_tia],
                        cycles, v, FALSE)
    IN  [a2 EXCEPT !.cpu.wait_for_tia = wsync, !.obs.wsync = wsync]

\* one scheduler step: the stall resolved, one instruction executed (a
\* write to WSYNC sets wait_for_tia), the clock advanced by cycles * 3
scheduler_step(a, cycles, wsync, v) ==
    LET a1 == wsync_stall(a)
        a2 == core_step([a1 EXCEPT !.obs.wait_at_step = a1.cpu.wait_for_tia],
                        ClocksPerCycle * cycles, v, FALSE)
    IN  [a2 EXCEPT !.cpu.wait_for_tia = wsync, !.obs.wsync = wsync]

InitScheduler ==
    /\ pc = "boundary"
    /\ args = ArgsInit
    /\ debugger = DebuggerInit
    /\ inputs = InputsInit
    /\ clocks = [system_clock |-> 0]
    /\ pc_state = 0
    /\ memory = MemoryInit
    /\ replay = Absent
    /\ last = ObsInit
    /\ calls = <<>>
    /\ stella = StellaInit
    /\ riot = RiotInit
    /\ HardwareInit

\* the machine at an instruction boundary
Boundary == [Called("step") EXCEPT !.obs.after_wsync = last.wsync]

Retire(r) ==
    /\ r.clocks.system_clock <= MaxLines * ScanlineClocks
    /\ clocks' = r.clocks
    /\ pc_state' = r.pc_state
    /\ cpu' = r.cpu
    /\ last' = r.obs
    /\ UNCHANGED <<pc, args, debugger, inputs, memory, replay, calls, stella, riot,
                   cart, bus>>

\* an instruction that does not write WSYNC
Execute ==
    /\ pc = "boundary"
    /\ \E cycles \in InstructionCycles, v \in RegValues :
          Retire(scheduler_step(Boundary, cycles, FALSE, v))

\* an instruction that writes WSYNC
ExecuteWsyncWrite ==
    /\ pc = "boundary"
    /\ \E cycles \in InstructionCycles, v \in RegValues :
          Retire(scheduler_step(Boundary, cycles, TRUE, v))

NextScheduler == Execute \/ ExecuteWsyncWrite

SpecScheduler == InitScheduler /\ [][NextScheduler]_vars

\* WSYNC written with the TIA at any position of a scanline
InitWsync ==
    /\ pc = "wsync"
    /\ args = ArgsInit
    /\ debugger = DebuggerInit
    /\ inputs = InputsInit
    /\ clocks \in {[system_clock |-> c] : c \in 0..(MaxLines * ScanlineClocks - 1)}
    /\ pc_state = 0
    /\ memory = MemoryInit
    /\ replay = Absent
    /\ last = ObsInit
    /\ calls = <<>>
    /\ stella = StellaInit
    /\ riot = RiotInit
    /\ cpu = [wait_for_tia |-> TRUE]
    /\ cart = NoCart
    /\ bus = NoAccess

ResolveStall ==
    /\ pc = "wsync"
    /\ cpu.wait_for_tia
    /\ LET r == wsync_stall(Called("wsync_stall"))
       IN  /\ clocks' = r.clocks
           /\ cpu' = r.cpu
           /\ last' = r.obs
    /\ UNCHANGED <<pc, args, debugger, inputs, pc_state, memory, replay, calls,
                   stella, riot, cart, bus>>

NextWsync == ResolveStall

SpecWsync == InitWsync /\ [][NextWsync]_vars

(***************************************************************************)
(* Properties of the scheduler (SpecScheduler, SpecWsync)                  *)
(***************************************************************************)
\* C15: system_clock is a multiple of 3 at every instruction boundary:
\* every scheduler step, a step that first resolves a WSYNC stall by
\* advancing to the next H == 0 included, advances the clock by a multiple
\* of 3 color clocks.
C15_ClockMultipleOfThree ==
    /\ clocks.system_clock % ClocksPerCycle = 0
    /\ last.stepped > 0 => last.clock_at_step % ClocksPerCycle = 0

\* a step resolved a stall that began inside a scanline
C15_Witness ==
    /\ last.stalled /\ last.stepped > 0
    /\ H(last.stall_from) # 0
    /\ clocks.system_clock > last.clock_at_step

\* C16: after a write to WSYNC has set wait_for_tia the next instruction
\* begins only when the TIA has advanced to the next H == 0, where the flag
\* is cleared: every instruction that follows a WSYNC write starts at
\* H == 0, no later than one scanline after the write, and wait_for_tia is
\* never true when an instruction begins.
C16_WsyncStall ==
    /\ cpu.wait_for_tia = last.wsync
    /\ last.stepped > 0 =>
          /\ ~last.wait_at_step
          /\ last.after_wsync = last.stalled
          /\ last.stalled =>
                /\ H(last.clock_at_step) = 0
                /\ last.stall_from < last.clock_at_step
                /\ last.clock_at_step - last.stall_from <= ScanlineClocks

\* an instruction began at H == 0 after a WSYNC written inside a scanline
C16_Witness ==
    /\ last.stepped > 0 /\ last.after_wsync /\ last.stalled
    /\ H(last.stall_from) # 0
    /\ H(last.clock_at_step) = 0

\* C17: a WSYNC stall ends at the next H == 0 of the 228-clock scanline;
\* one that begins at H = 227 costs 1 CPU cycle, one that begins at H = 0
\* costs 76 CPU cycles, a full scanline.
C17_WsyncStallLength ==
    last.stalled =>
        LET h == H(last.stall_from)
            cost == cpu_cycles(clocks.system_clock) - cpu_cycles(last.stall_from)
        IN  /\ H(clocks.system_clock) = 0
            /\ clocks.system_clock - last.stall_from = ScanlineClocks - h
            /\ h = 227 => cost = 1
            /\ h = 0 => cost = 76

\* a stall that began at H = 227 was resolved
C17_Witness ==
    /\ last.stalled
    /\ H(last.stall_from) = 227
    /\ ~cpu.wait_for_tia
    /\ H(clocks.system_clock) = 0

(***************************************************************************)
(* SpecBankSwitch: reads and writes of a bank-switched cartridge           *)
(***************************************************************************)
\* the address-hotspot variants of the cartridge table: default / f8,
\* super / f6, f4 and cbs / fa ($FF9 = 4089, $FFB = 4091, $FFA = 4090)
Variants ==
    {Cart("GenericCartridge", 2, 4096, 4089, 0),
     Cart("GenericCartridge", 4, 4096, 4089, 0),
     Cart("GenericCartridge", 8, 4096, 4091, 0),
     Cart("GenericCartridge", 3, 4096, 4090, 256)}

\* the hotspots of a variant end at its top hotspot, one for each bank
FirstHotspot(c) == TopHotspot(c) - BankCount(c) + 1

Hotspots(c) == FirstHotspot(c)..TopHotspot(c)

\* embedded RAM: written through the first ram_size addresses, read
\* through the next ram_size ($1000-$10FF and $1100-$11FF for cbs)
RamWriteWindow(c) == 0..(RamSize(c) - 1)

RamReadWindow(c) == RamSize(c)..(2 * RamSize(c) - 1)

\* the ROM image: the byte at an offset of a bank
rom(bank, offset) == [from |-> "rom", bank |-> bank, offset |-> offset]

\* the 12-bit addresses read and written: the ends of the RAM windows, an
\* address behind them, the hotspot range and its neighbours, the top
ProbeAddrs == {0, 255, 256, 511, 512} \cup (4083..4092) \cup {4095}

\* the byte taken from the bank current before the switch
read_byte_switch_late(k, addr12) ==
    IF addr12 \in RamReadWindow(k.config)
    THEN [cart |-> k, byte |-> [from |-> "ram", bank |-> 0 - 1, offset |-> k.ram]]
    ELSE LET k1 == IF addr12 \in Hotspots(k.config)
                   THEN [k EXCEPT !.current_bank = addr12 - FirstHotspot(k.config)]
                   ELSE k
         IN  [cart |-> k1, byte |-> rom(k.current_bank, addr12)]

\* Cartridge.read_byte: a hotspot switches the bank before the byte is
\* taken; the RAM read window returns the embedded RAM
read_byte(k, addr12) ==
    IF addr12 \in RamReadWindow(k.config)
    THEN [cart |-> k, byte |-> [from |-> "ram", bank |-> 0 - 1, offset |-> k.ram]]
    ELSE LET k1 == IF addr12 \in Hotspots(k.config)
                   THEN [k EXCEPT !.current_bank = addr12 - FirstHotspot(k.config)]
                   ELSE k
         IN  [cart |-> k1, byte |-> rom(k1.current_bank, addr12)]

\* Cartridge.write_byte: a no-op but in the RAM write window
write_byte(k, addr12, v) ==
    IF addr12 \in RamWriteWindow(k.config) THEN [k EXCEPT !.ram = v] ELSE k

\* a cartridge of any variant in the slot, any of its banks current
InitBankSwitch ==
    /\ pc = "cartridge"
    /\ args = ArgsInit
    /\ debugger = DebuggerInit
    /\ inputs = InputsInit
    /\ clocks = [system_clock |-> 0]
    /\ pc_state = 0
    /\ memory = MemoryInit
    /\ replay = Absent
    /\ last = ObsInit
    /\ calls = <<>>
    /\ stella = StellaInit
    /\ riot = RiotInit
    /\ cpu = [wait_for_tia |-> FALSE]
    /\ \E c \in Variants, b \in 0..7 :
          /\ b < BankCount(c)
          /\ cart = [config |-> c, current_bank |-> b, ram |-> 0]
    /\ bus = NoAccess

CartRead ==
    /\ pc = "cartridge"
    /\ \E addr12 \in ProbeAddrs :
          LET r == read_byte(cart, addr12)
          IN  /\ cart' = r.cart
              /\ last' = [ObsInit EXCEPT
                             !.op = "read_byte", !.addr = addr12, !.byte = r.byte,
                             !.hotspot = IF addr12 \in Hotspots(cart.config)
                                         THEN addr12 ELSE last.hotspot]
    /\ UNCHANGED <<pc, args, debugger, inputs, clocks, pc_state, memory, replay,
                   calls, stella, riot, cpu, bus>>

CartWrite ==
    /\ pc = "cartridge"
    /\ \E addr12 \in ProbeAddrs, v \in RegValues :
          /\ cart' = write_byte(cart, addr12, v)
          /\ last' = [ObsInit EXCEPT !.op = "write_byte", !.addr = addr12,
                                     !.hotspot = last.hotspot]
    /\ UNCHANGED <<pc, args, debugger, inputs, clocks, pc_state, memory, replay,
                   calls, stella, riot, cpu, bus>>

NextBankSwitch == CartRead \/ CartWrite

SpecBankSwitch == InitBankSwitch /\ [][NextBankSwitch]_vars

(***************************************************************************)
(* Properties of the cartridge (SpecBankSwitch)                            *)
(***************************************************************************)
\* the bank the hotspot read latest selects
SelectedBank == last.hotspot - FirstHotspot(cart.config)

AddressBits == 13

Addresses == 0..(2 ^ AddressBits - 1)

\* bit n of an address
Bit(addr, n) == (addr \div (2 ^ n)) % 2

DeviceNames == {"TIA", "RIOT RAM", "RIOT I/O", "Cartridge"}

\* RIOT I/O selected by bit 9 alone
selects_io_by_bit9(device, addr) ==
    CASE device = "TIA" -> Bit(addr, 12) = 0 /\ Bit(addr, 7) = 0
      [] device = "RIOT RAM" ->
            Bit(addr, 12) = 0 /\ Bit(addr, 7) = 1 /\ Bit(addr, 9) = 0
      [] device = "RIOT I/O" -> Bit(addr, 12) = 0 /\ Bit(addr, 9) = 1
      [] device = "Cartridge" -> Bit(addr, 12) = 1

\* the decode table: the row of each device
selects(device, addr) ==
    CASE device = "TIA" -> Bit(addr, 12) = 0 /\ Bit(addr, 7) = 0
      [] device = "RIOT RAM" ->
            Bit(addr, 12) = 0 /\ Bit(addr, 7) = 1 /\ Bit(addr, 9) = 0
      [] device = "RIOT I/O" ->
            Bit(addr, 12) = 0 /\ Bit(addr, 7) = 1 /\ Bit(addr, 9) = 1
      [] device = "Cartridge" -> Bit(addr, 12) = 1

\* Memory map read / write: the access dispatched to the devices whose
\* row it matches; with none it is an UnmappedRead / UnmappedWrite
dispatch(b) ==
    LET devices == {device \in DeviceNames : selects(device, b.addr)}
    IN  [b EXCEPT !.routed = TRUE,
                  !.devices = devices,
                  !.error = IF devices # {}
                            THEN "None"
                            ELSE IF b.rw = "read" THEN "UnmappedRead"
                                 ELSE "UnmappedWrite"]

\* the CPU puts any address on the bus, for a read or a write
InitMemoryMap ==
    /\ pc = "access"
    /\ args = ArgsInit
    /\ debugger = DebuggerInit
    /\ inputs = InputsInit
    /\ clocks = [system_clock |-> 0]
    /\ pc_state = 0
    /\ memory = MemoryInit
    /\ replay = Absent
    /\ last = ObsInit
    /\ calls = <<>>
    /\ stella = StellaInit
    /\ riot = RiotInit
    /\ cpu = [wait_for_tia |-> FALSE]
    /\ cart = NoCart
    /\ \E addr \in Addresses, rw \in {"read", "write"} :
          bus = [NoAccess EXCEPT !.addr = addr, !.rw = rw]

Dispatch ==
    /\ pc = "access"
    /\ ~bus.routed
    /\ bus' = dispatch(bus)
    /\ UNCHANGED <<pc, args, debugger, inputs, clocks, pc_state, memory, replay,
                   last, calls, stella, riot, cpu, cart>>

NextMemoryMap == Dispatch

SpecMemoryMap == InitMemoryMap /\ [][NextMemoryMap]_vars

(***************************************************************************)
(* Properties of the memory map (SpecMemoryMap)                            *)
(***************************************************************************)
\* C19: the address decode is total and unambiguous: every 13-bit address,
\* read or written, is dispatched to exactly one of TIA, RIOT RAM, RIOT
\* I/O and Cartridge; UnmappedRead / UnmappedWrite never occurs and no
\* access reaches two devices.
C19_DecodeTotalAndUnambiguous ==
    bus.routed =>
        /\ bus.devices \subseteq DeviceNames
        /\ Cardinality(bus.devices) = 1
        /\ bus.error = "None"

\* an address with bit 9 set and bit 7 clear, a mirror of the TIA, was
\* dispatched
C19_Witness ==
    /\ bus.routed
    /\ Bit(bus.addr, 12) = 0 /\ Bit(bus.addr, 9) = 1 /\ Bit(bus.addr, 7) = 0
    /\ bus.devices = {"TIA"}

(***************************************************************************)
(* SpecCollisions: the collision latches of the TIA                        *)
(***************************************************************************)
Objects == {"P0", "P1", "M0", "M1", "BL", "PF"}

CXRegisters ==
    {"CXM0P", "CXM1P", "CXP0FB", "CXP1FB", "CXM0FB", "CXM1FB", "CXBLPF", "CXPPMM"}

\* the bit of the CX register that latches the collision of a pair
Latch(register, bit, pair) == [register |-> register, bit |-> bit, pair |-> pair]

LatchTable ==
    {Latch("CXM0P", 7, {"M0", "P1"}), Latch("CXM0P", 6, {"M0", "P0"}),
     Latch("CXM1P", 7, {"M1", "P0"}), Latch("CXM1P", 6, {"M1", "P1"}),
     Latch("CXP0FB", 7, {"P0", "PF"}), Latch("CXP0FB", 6, {"P0", "BL"}),
     Latch("CXP1FB", 7, {"P1", "PF"}), Latch("CXP1FB", 6, {"P1", "BL"}),
     Latch("CXM0FB", 7, {"M0", "PF"}), Latch("CXM0FB", 6, {"M0", "BL"}),
     Latch("CXM1FB", 7, {"M1", "PF"}), Latch("CXM1FB", 6, {"M1", "BL"}),
     Latch("CXBLPF", 7, {"BL", "PF"}),
     Latch("CXPPMM", 7, {"P0", "P1"}), Latch("CXPPMM", 6, {"M0", "M1"})}

\* a TIA register written that is not CXCLR
OtherRegisters == {"WSYNC", "COLUBK", "GRP0", "HMOVE", "VBLANK"}

\* the bits of this pixel replace the latched ones
render_pixel_overwrite(st, objects) ==
    [st EXCEPT !.cx = {l \in LatchTable : l.pair \subseteq objects},
               !.x = @ + 1]

\* a visible pixel with the given objects set: the bit of every pair among
\* them is latched
render_pixel(st, objects) ==
    [st EXCEPT !.cx = @ \cup {l \in LatchTable : l.pair \subseteq objects},
               !.x = @ + 1]

\* a write to a TIA register: CXCLR clears all collision registers
write_register(st, register, v) ==
    IF register = "CXCLR"
    THEN [st EXCEPT !.cx = {}]
    ELSE [st EXCEPT !.state = v]

\* a read of a collision register: bits 7 and 6 as latched
read_collision(st, register) ==
    (IF \E l \in st.cx : l.register = register /\ l.bit = 7 THEN 128 ELSE 0)
    + (IF \E l \in st.cx : l.register = register /\ l.bit = 6 THEN 64 ELSE 0)

InitCollisions ==
    /\ pc = "tia"
    /\ args = ArgsInit
    /\ debugger = DebuggerInit
    /\ inputs = InputsInit
    /\ clocks = [system_clock |-> 0]
    /\ pc_state = 0
    /\ memory = MemoryInit
    /\ replay = Absent
    /\ last = ObsInit
    /\ calls = <<>>
    /\ stella = StellaInit
    /\ riot = RiotInit
    /\ HardwareInit

TiaDid(op, st) ==
    /\ pc = "tia"
    /\ stella' = st
    /\ last' = [ObsInit EXCEPT !.op = op]
    /\ UNCHANGED <<pc, args, debugger, inputs, clocks, pc_state, memory, replay,
                   calls, riot, hardware>>

RenderPixel ==
    /\ stella.x < MaxPixels
    /\ \E objects \in SUBSET Objects :
          TiaDid("render_pixel", render_pixel(stella, objects))

WriteCxclr == TiaDid("CXCLR", write_register(stella, "CXCLR", 0))

WriteOtherRegister ==
    \E register \in OtherRegisters, v \in RegValues :
        TiaDid("write_register", write_register(stella, register, v))

\* a read returns the latches and leaves the TIA as it is
ReadCollision ==
    \E register \in CXRegisters :
        /\ read_collision(stella, register) \in 0..255
        /\ TiaDid("read_collision", stella)

NextCollisions ==
    \/ RenderPixel
    \/ WriteCxclr
    \/ WriteOtherRegister
    \/ ReadCollision

SpecCollisions == InitCollisions /\ [][NextCollisions]_vars

(***************************************************************************)
(* Properties of the collision latches (SpecCollisions)                    *)
(***************************************************************************)
\* C20: a collision bit once set stays set through every TIA operation
\* that is not a write to CXCLR (pixels rendered, other registers written,
\* collision registers read), and right after a write to CXCLR all eight
\* collision registers read zero.
C20_LatchesStickyUntilCxclr ==
    [][/\ last'.op # "CXCLR" => stella.cx \subseteq stella'.cx
       /\ last'.op = "CXCLR" =>
             \A register \in CXRegisters : read_collision(stella', register) = 0]_vars

\* the P0 / playfield bit, latched by an earlier pixel, is still set after
\* a pixel without either object
C20_Witness ==
    /\ last.op = "render_pixel"
    /\ read_collision(stella, "CXP0FB") = 128
    /\ read_collision(stella, "CXPPMM") = 64
    /\ stella.state = 1

(***************************************************************************)
(* SpecHmove: the horizontal-motion registers of the TIA                   *)
(***************************************************************************)
\* the objects HMOVE moves
MoveObjects == {"P0", "P1", "M0", "M1", "BL"}

\* visible pixel columns of a scanline
VisiblePixels == 160

\* values written to the HM registers: $00, and $80 whose high nibble is 8
HMValues == {0, 128}

\* the offset an object gets on HMOVE: (HMxx >> 4) - 8
hm_offset(v) == (v \div 16) - 8

\* a write to HMP0, HMP1, HMM0, HMM1 or HMBL
write_hm(st, object, v) == [st EXCEPT !.hm[object] = v]

\* HMCLR that leaves the ball's register as it is
write_hmclr_but_ball(st) ==
    [st EXCEPT !.hm = [o \in MoveObjects |-> IF o = "BL" THEN @[o] ELSE 0]]

\* HMCLR zeroes all five HM registers
write_hmclr(st) == [st EXCEPT !.hm = [o \in MoveObjects |-> 0]]

\* HMOVE: every object's position shifted by its offset, within 0..159
write_hmove(st) ==
    [st EXCEPT !.pos = [o \in MoveObjects |->
                            (@[o] + hm_offset(st.hm[o])) % VisiblePixels],
               !.hmoves = @ + 1]

\* the objects positioned by their RES strobes, at the ends of the line
\* and inside it
InitHmove ==
    /\ pc = "tia"
    /\ args = ArgsInit
    /\ debugger = DebuggerInit
    /\ inputs = InputsInit
    /\ clocks = [system_clock |-> 0]
    /\ pc_state = 0
    /\ memory = MemoryInit
    /\ replay = Absent
    /\ last = ObsInit
    /\ calls = <<>>
    /\ stella = [StellaInit EXCEPT
                     !.pos = [P0 |-> 0, P1 |-> 7, M0 |-> 80, M1 |-> 152, BL |-> 159]]
    /\ riot = RiotInit
    /\ HardwareInit

HmDid(op, st) ==
    /\ pc = "tia"
    /\ stella' = st
    /\ last' = [ObsInit EXCEPT !.op = op, !.prev_op = last.op,
                               !.pos_before = stella.pos]
    /\ UNCHANGED <<pc, args, debugger, inputs, clocks, pc_state, memory, replay,
                   calls, riot, hardware>>

WriteHm ==
    \E object \in MoveObjects, v \in HMValues :
        HmDid("HM", write_hm(stella, object, v))

WriteHmclr == HmDid("HMCLR", write_hmclr(stella))

WriteHmove ==
    /\ stella.hmoves < MaxHmoves
    /\ HmDid("HMOVE", write_hmove(stella))

NextHmove == WriteHm \/ WriteHmclr \/ WriteHmove

SpecHmove == InitHmove /\ [][NextHmove]_vars

TimerIntervals == [TIM1T |-> 1, TIM8T |-> 8, TIM64T |-> 64, T1024T |-> 1024]

\* the values written to a timer register: 1 and $40
TimerValues == {1, 64}

\* CPU cycles that pass between two accesses of the timer
ElapseCycles == {1, 64}

\* the byte a read past expiration returns
UnderflowByte == 255

\* expiration_time = system_clock + value * interval, the 3 left out
timer_write_cpu_clocks(r, clock, register, v) ==
    [r EXCEPT !.timer_value = v,
              !.interval = TimerIntervals[register],
              !.set_time = clock,
              !.expiration_time = clock + v * TimerIntervals[register],
              !.timint = FALSE]

\* Timer write: the interval set, the value latched,
\* expiration_time = system_clock + value * interval * 3
timer_write(r, clock, register, v) ==
    [r EXCEPT !.timer_value = v,
              !.interval = TimerIntervals[register],
              !.set_time = clock,
              !.expiration_time = clock + v * TimerIntervals[register] * ClocksPerCycle,
              !.timint = FALSE]

\* Timer read: max(0, (expiration_time - system_clock) / (3 * interval))
\* truncated to 8 bits; past expiration the underflow byte, timint set
timer_read(r, clock) ==
    IF clock > r.expiration_time
    THEN [riot |-> [r EXCEPT !.timint = TRUE], value |-> UnderflowByte]
    ELSE [riot |-> r,
          value |-> Max(0, (r.expiration_time - clock)
                               \div (ClocksPerCycle * r.interval)) % 256]

InitTimer ==
    /\ pc = "riot"
    /\ args = ArgsInit
    /\ debugger = DebuggerInit
    /\ inputs = InputsInit
    /\ clocks \in {[system_clock |-> ClocksPerCycle * c] : c \in {0, 7}}
    /\ pc_state = 0
    /\ memory = MemoryInit
    /\ replay = Absent
    /\ last = ObsInit
    /\ calls = <<>>
    /\ stella = StellaInit
    /\ riot = RiotInit
    /\ HardwareInit

WriteTimer ==
    /\ pc = "riot"
    /\ riot.interval = 0
    /\ \E register \in DOMAIN TimerIntervals, v \in TimerValues :
          riot' = timer_write(riot, clocks.system_clock, register, v)
    /\ last' = [ObsInit EXCEPT !.op = "timer_write"]
    /\ UNCHANGED <<pc, args, debugger, inputs, clocks, pc_state, memory, replay,
                   calls, stella, hardware>>

\* instructions that do not touch the timer
Elapse ==
    /\ pc = "riot"
    /\ riot.interval # 0
    /\ \E k \in ElapseCycles :
          /\ clocks.system_clock + ClocksPerCycle * k
                 <= riot.set_time + ClocksPerCycle * MaxElapsed
          /\ clocks' = [clocks EXCEPT !.system_clock = @ + ClocksPerCycle * k]
    /\ last' = [ObsInit EXCEPT !.op = "elapse"]
    /\ UNCHANGED <<pc, args, debugger, inputs, pc_state, memory, replay,
                   calls, stella, riot, hardware>>

ReadIntim ==
    /\ pc = "riot"
    /\ riot.interval # 0
    /\ LET r == timer_read(riot, clocks.system_clock)
       IN  /\ riot' = r.riot
           /\ last' = [ObsInit EXCEPT !.op = "INTIM", !.value = r.value]
    /\ UNCHANGED <<pc, args, debugger, inputs, clocks, pc_state, memory, replay,
                   calls, stella, hardware>>

NextTimer == WriteTimer \/ Elapse \/ ReadIntim

SpecTimer == InitTimer /\ [][NextTimer]_vars

(***************************************************************************)
(* Properties of the RIOT timer (SpecTimer)                                *)
(***************************************************************************)
\* CPU cycles since the timer was written
SinceWrite == (clocks.system_clock - riot.set_time) \div ClocksPerCycle

\* the least n with n * d >= k
CeilDiv(k, d) == (k + d - 1) \div d

C23_PausedLoopPollsAndQuits ==
    /\ [](((pc = "loop" \/ pc = "error") /\ last.ran /\ debugger.paused)
             => (last.displayed = 1 /\ (last.stepped = 0 \/ last.consumed)))
    /\ ((pc = "loop" /\ debugger.paused /\ inputs.quit = 1) ~> (pc = "done"))

\* the loop ended on a quit request polled in an iteration that was paused
\* and ran no instruction
C23_Witness ==
    /\ pc = "loop"
    /\ last.ran /\ debugger.paused
    /\ last.stepped = 0 /\ last.displayed = 1
    /\ last.quit_at_test = 0 /\ inputs.quit = 1

\* C24: when a single step has executed while paused, the next render of
\* the debugger reports the registers and RAM as changed exactly when that
\* step modified them.
C24_SingleStepShownAsChanged ==
    [][(pc = "loop" /\ last.consumed /\ last'.ran /\ last'.changed # "none")
          => ((last'.changed = "yes") <=> last.modified)]_vars

(***************************************************************************)
(* SpecStackView: the full memory view rendered for every stack pointer    *)
(***************************************************************************)
\* the values of the 8-bit stack pointer S
StackPointers == 0..255

\* the debugger opened with F12 and switched to the memory view with Tab,
\* a 4K cartridge inserted, the stack empty (S = $FF)
InitStackView ==
    /\ pc = "view"
    /\ args = ArgsInit
    /\ pc_state = 255
    /\ debugger = [DebuggerInit EXCEPT !.active = TRUE, !.paused = TRUE,
                                       !._initialized = TRUE,
                                       !.view_mode = VIEW_MEMORY,
                                       !._prev_cpu_state = pc_state]
    /\ inputs = [InputsInit EXCEPT !.debugger_active = TRUE]
    /\ clocks = [system_clock |-> 0]
    /\ memory = [MemoryInit EXCEPT !.rom = 4096]
    /\ replay = Absent
    /\ last = ObsInit
    /\ calls = <<>>
    /\ stella = StellaInit
    /\ riot = RiotInit
    /\ HardwareInit

\* the program has left S = sp, and the debugger is rendered
RenderStackView ==
    /\ pc = "view"
    /\ \E sp \in StackPointers :
          LET r == render([Called("render") EXCEPT !.pc_state = sp])
          IN  /\ pc_state' = sp
              /\ debugger' = r.debugger
              /\ last' = r.obs
    /\ UNCHANGED <<pc, args, inputs, clocks, memory, replay, calls,
                   stella, riot, hardware>>

NextStackView == RenderStackView

SpecStackView == InitStackView /\ [][NextStackView]_vars

\* C25: for every S in 0..255 the stack section of the full memory view
\* marks exactly one displayed byte as the stack-pointer position, the
\* byte at $0100 + S, and every RAM index it reads lies in 0..127.
C25_StackViewMarksStackPointer ==
    last.op = "render" =>
        /\ last.marked = {256 + pc_state}
        /\ last.read \subseteq 0..127

(***************************************************************************)
(* Properties of the views and the scroll position (SpecDebuggerView)      *)
(***************************************************************************)
\* the view after n presses of Tab
RECURSIVE Tabs(_, _)
Tabs(a, n) == IF n = 0 THEN a ELSE Tabs(handle_key(a, "TAB"), n - 1)

\* C26: view_mode is always one of the four views 0..3; Tab advances it to
\* (view_mode + 1) mod 4 and resets memory_scroll to 0; four Tabs lead
\* back to the view they started from; no other key changes view_mode.
C26_TabCyclesViews ==
    /\ debugger.view_mode \in {VIEW_MAIN, VIEW_MEMORY, VIEW_SPRITES, VIEW_TIA}
    /\ last.op = "TAB" =>
          /\ debugger.view_mode = (last.pre.view_mode + 1) % 4
          /\ debugger.memory_scroll = 0
    /\ last.op \in Keys \ {"TAB"} => debugger.view_mode = last.pre.view_mode
    /\ Tabs(Called("TAB"), 4).debugger.view_mode = debugger.view_mode
    /\ \A n \in 1..3 :
          Tabs(Called("TAB"), n).debugger.view_mode # debugger.view_mode

\* Tab pressed in the last view with the memory scrolled down
C26_Witness ==
    /\ last.op = "TAB"
    /\ last.pre.view_mode = VIEW_TIA /\ last.pre.memory_scroll > 0
    /\ debugger.view_mode = VIEW_MAIN /\ debugger.memory_scroll = 0

\* C30: with handle_key calls and renders that recompute max_scroll for
\* the inserted cartridge in any order, 0 <= memory_scroll <= max_scroll
\* and max_scroll >= 0 in every state.
C30_ScrollWithinBounds ==
    /\ 0 <= debugger.memory_scroll
    /\ debugger.memory_scroll <= debugger.max_scroll
    /\ debugger.max_scroll >= 0

\* Page Down stopped at the end of the memory view of a 2K cartridge
C30_Witness ==
    /\ last.op = "PAGEDOWN"
    /\ memory.rom = 2048
    /\ last.pre.memory_scroll < debugger.max_scroll
    /\ last.pre.memory_scroll + 20 > debugger.max_scroll
    /\ debugger.memory_scroll = debugger.max_scroll

(***************************************************************************)
(* Properties of the step request (SpecDebugger)                           *)
(***************************************************************************)
\* C28: after any sequence of toggle, toggle_pause, step_one, consume_step
\* and handle_key a step request is pending only while paused; resuming
\* with P (or toggle_pause) and closing the debugger discard it.
C28_StepRequestOnlyWhilePaused ==
    /\ debugger._step_requested => debugger.paused
    /\ (last.op \in {"p", "toggle_pause"} /\ ~debugger.paused)
          => ~debugger._step_requested
    /\ (last.op = "toggle" /\ ~debugger.active) => ~debugger._step_requested

\* the emulation was resumed with P while a step request was pending
C28_Witness ==
    /\ last.op = "p"
    /\ last.pre.paused /\ last.pre._step_requested
    /\ ~debugger.paused /\ ~debugger._step_requested

(***************************************************************************)
(* Properties of power_on and of the debugger in the main loop (Spec)      *)
(***************************************************************************)
\* the positions in calls at which name was called
CallsOf(name) == {i \in 1..Len(calls) : calls[i] = name}

\* C27: power_on attaches the RIOT and the TIA to the memory map and then
\* calls core.reset() exactly once; in no run mode core.step() runs before
\* the reset, and while the loop runs reset is not called again.
C27_ResetOnceBeforeFirstStep ==
    /\ [](pc # "init" =>
             /\ Cardinality(CallsOf("core.reset")) = 1
             /\ \A r \in CallsOf("core.reset") :
                   /\ \E i \in CallsOf("memory.set_riot") : i < r
                   /\ \E i \in CallsOf("memory.set_stella") : i < r)
    /\ [](last.stepped > 0 => Cardinality(CallsOf("core.reset")) = 1)
    /\ [][pc # "init" => calls' = calls]_vars

\* the replay loop executed its first instruction, after the one reset
C27_Witness ==
    /\ pc = "loop" /\ Loop(args) = "replay"
    /\ last.stepped = 1 /\ last.clock_at_step = 0
    /\ CallsOf("core.reset") = {4}

\* C29: driven by the main loop only, debugger.paused implies
\* debugger.active in every state, and inputs.debugger_active equals
\* debugger.active after every toggle.
C29_PausedImpliesActive ==
    /\ debugger.paused => debugger.active
    /\ inputs.debugger_active = debugger.active

\* the debugger was opened and closed again with F12
C29_Witness ==
    /\ pc = "loop"
    /\ ~debugger.active /\ ~debugger.paused /\ ~inputs.debugger_active
    /\ debugger._prev_cpu_state # None

====
